---- MODULE Spec2Model ----
(***************************************************************************)
(* external-dns webhook provider for EfficientIP SolidDNS.                 *)
(*                                                                         *)
(* The module models the provider's write path (ApplyChanges and the       *)
(* per-target fan-out of RecordAdd / RecordDelete), its read path          *)
(* (convertRecordsToEndpoints) and the AdjustEndpoints hook.               *)
(***************************************************************************)
EXTENDS Integers, Sequences, FiniteSets, TLC

VARIABLES
    \* ---- write path (Provider.ApplyChanges) ----
    dryRun,     \* p.config.DryRun
    changes,    \* the *plan.Changes argument: <<>> is nil, <<c>> points to c
    pc,         \* "idle" | "loop" | "targets" | "done" | "wait"
    phase,      \* 1..4: Delete, UpdateOld, Create, UpdateNew
    epi,        \* index of the endpoint being processed in the phase's list
    tgi,        \* index of the target whose call is issued next
    calls,      \* appliance calls issued so far (DnsRrAdd / DnsRrDelete), in order
    appliance,  \* records held by the appliance
    rets,       \* returns of client.RecordAdd / client.RecordDelete (under
                \* dry-run: of DeleteChanges / CreateChanges), in order
    result,     \* what ApplyChanges returned: <<>> is nil, else the error chain
    \* ---- read path (convertRecordsToEndpoints) ----
    records,    \* the rows of one zone, as the appliance returned them
    rpc,        \* "rows" | "done"
    endpoints,  \* the endpoints returned
    convErr,    \* the error returned: <<>> is nil
    \* ---- Provider.AdjustEndpoints ----
    defaultTTL, \* p.config.DefaultTTL
    createPTR,  \* p.config.CreatePTR
    adjEps,     \* the endpoints the caller holds (adjusted in place)
    adjIn,      \* their values when AdjustEndpoints was last called
    adjRet,     \* the slice AdjustEndpoints last returned
    adjCalls,   \* number of AdjustEndpoints calls made
    \* ---- Provider.Zones / Provider.Records ----
    domainFilter, \* p.domainFilter: inclusion and exclusion lists
    zoneListing,  \* what the appliance answers to DnsZoneList
    zpc,          \* "zones" | "loop" | "done"
    zonesRet,     \* what Provider.Zones returned: zones and error
    zi,           \* index, in the zones returned, of the zone listed next
    queried,      \* the DnsRrList calls issued so far, in order
    recEndpoints, \* the endpoints Records has appended so far
    recordsRet,   \* what Provider.Records returned: endpoints and error
    \* ---- WebhookServer: /healthz ----
    wsReady,      \* ws.Ready
    wsChannel,    \* number of values held by ws.Channel (capacity 1)
    apiStarted,   \* the webhook API has sent its value on ws.Channel
    reqs          \* the /healthz requests: position of each handler and answer

writeVars == <<dryRun, changes, pc, phase, epi, tgi, calls, appliance, rets, result>>
readVars == <<records, rpc, endpoints, convErr>>
adjVars == <<defaultTTL, createPTR, adjEps, adjIn, adjRet, adjCalls>>
zoneVars == <<domainFilter, zoneListing, zpc, zonesRet, zi, queried, recEndpoints, recordsRet>>
healthVars == <<wsReady, wsChannel, apiStarted, reqs>>
vars == <<writeVars, readVars, adjVars, zoneVars, healthVars>>

----------------------------------------------------------------------------
(* Bounds of the model *)

MaxTargets == 2     \* targets of an endpoint of a batch
MaxEps == 2         \* endpoints of a batch, all four lists together
MaxRows == 3        \* rows of a zone
MaxAdjust == 2      \* endpoints handed to AdjustEndpoints
MaxAdjustCalls == 2 \* AdjustEndpoints calls on the same endpoints

----------------------------------------------------------------------------
(* endpoint.TTL is an int64.  A value v is kept as hi * 2^31 + lo with      *)
(* 0 <= lo < 2^31, so that values beyond 32 bits can be told apart.         *)

MaxInt32 == 2147483647

I64(n) == IF n >= 0 THEN [hi |-> 0, lo |-> n]
                    ELSE [hi |-> -1, lo |-> (MaxInt32 + n) + 1]

\* 2^31 + n for 0 <= n < 2^31
I64Big(n) == [hi |-> 1, lo |-> n]

\* int32(x) of an int64: the low 32 bits, read as a signed number
ToInt32(t) == IF t.hi % 2 = 0 THEN t.lo ELSE (t.lo - MaxInt32) - 1

----------------------------------------------------------------------------
(* Endpoints *)

RecordTypeA == "A"

Endpoint(name, type, ttl, targets) ==
    [name |-> name, type |-> type, ttl |-> ttl, targets |-> targets,
     ps |-> <<>>, labels |-> {}]

TargetVal(i) == <<"1.1.1.1", "2.2.2.2", "3.3.3.3", "4.4.4.4">>[i]

\* The endpoints a batch is drawn from: one per number of targets 0..MaxTargets,
\* alternating between an A record with a small TTL and a TXT record whose TTL
\* does not fit 32 bits.
PoolEndpoint(n) ==
    IF n % 2 = 0
    THEN Endpoint("x.co", "A", I64(300), [i \in 1..n |-> TargetVal(i)])
    ELSE Endpoint("y.co", "TXT", I64Big(60), [i \in 1..n |-> TargetVal(i)])

EndpointPool == { PoolEndpoint(n) : n \in 0..MaxTargets }

Phases == 1..4

PhaseSorted(s) == \A i \in 1..Len(s) - 1 : s[i][1] <= s[i + 1][1]

RECURSIVE PhasePart(_, _)
PhasePart(s, p) ==
    IF s = <<>> THEN <<>>
    ELSE IF Head(s)[1] = p THEN <<Head(s)[2]>> \o PhasePart(Tail(s), p)
         ELSE PhasePart(Tail(s), p)

MkChanges(s) ==
    [Delete |-> PhasePart(s, 1), UpdateOld |-> PhasePart(s, 2),
     Create |-> PhasePart(s, 3), UpdateNew |-> PhasePart(s, 4)]

\* every batch holding at most MaxEps endpoints in all
Batches ==
    { MkChanges(s) :
        s \in { t \in UNION { [1..n -> Phases \X EndpointPool] : n \in 0..MaxEps } :
                  PhaseSorted(t) } }

\* a slip: processDeletions is handed the Create list and processCreations the
\* UpdateOld list
PhaseListMixedUp(c, p) ==
    CASE p = 1 -> c.Delete
      [] p = 2 -> c.Create
      [] p = 3 -> c.UpdateOld
      [] p = 4 -> c.UpdateNew

PhaseList(c, p) ==
    CASE p = 1 -> c.Delete
      [] p = 2 -> c.UpdateOld
      [] p = 3 -> c.Create
      [] p = 4 -> c.UpdateNew

IsDeletePhase(p) == p \in {1, 2}

RecordKey(name, type, value) == [name |-> name, type |-> type, value |-> value]

EndpointRecords(ep) ==
    { RecordKey(ep.name, ep.type, ep.targets[i]) : i \in 1..Len(ep.targets) }

\* the records a batch removes exist before the batch is applied
InitialRecords(c) ==
    UNION { EndpointRecords(c.Delete[i]) : i \in 1..Len(c.Delete) }
    \cup UNION { EndpointRecords(c.UpdateOld[i]) : i \in 1..Len(c.UpdateOld) }

----------------------------------------------------------------------------
(* Appliance responses *)

\* err: the transport failed; status: the HTTP status; success: the flag of
\* the response body
Response(err, status, success) == [err |-> err, status |-> status, success |-> success]

Responses ==
    { Response(FALSE, 200, TRUE),     \* done
      Response(FALSE, 200, FALSE),    \* answered, body says failure
      Response(FALSE, 400, FALSE),    \* rejected
      Response(TRUE, 0, FALSE) }      \* no answer

\* the appliance changed its records
Applied(r) == ~r.err /\ r.status < 400 /\ r.success

NoError == <<>>

Wrap(msg, err) == <<msg>> \o err

----------------------------------------------------------------------------
(* EfficientIPAPI: one appliance call per target *)

dnsName == "smart.example"     \* e.dnsName
dnsView == "internal"          \* e.dnsView

\* eip.DnsRrAddInput built by createSingleRecord
AddInput(ep, target) ==
    [server |-> dnsName, view |-> dnsView, name |-> ep.name, type |-> ep.type,
     ttl |-> ToInt32(ep.ttl), value |-> target]

\* a slip: every delete call is keyed by the first target
DeleteInputFirstTarget(ep, target) ==
    [name |-> ep.name, type |-> ep.type, value |-> ep.targets[1]]

\* the request parameters set by deleteSingleRecord
DeleteInput(ep, target) ==
    [name |-> ep.name, type |-> ep.type, value |-> target]

\* the error createSingleRecord returns on response r
createSingleRecord(r) ==
    IF r.err THEN <<"failed to create record", "request failed">>
    ELSE IF r.status >= 400 THEN <<"API returned status when creating record">>
    ELSE NoError

\* the error deleteSingleRecord returns on response r
deleteSingleRecord(r) ==
    IF r.err THEN <<"failed to delete record", "request failed">>
    ELSE IF r.status >= 400 THEN <<"API returned status when deleting record">>
    ELSE NoError

NoTargets == <<"no targets provided for record">>

\* a slip: the guard on the number of targets is missing
TargetsNeverMissing(ep) == FALSE

\* the guard of RecordAdd / RecordDelete
TargetsMissing(ep) == Len(ep.targets) = 0

\* a slip: the error of a single call is dropped and the loop goes on
LoopNeverAborts(err) == FALSE

\* RecordAdd / RecordDelete leave their loop on the first error
LoopAborts(err) == err /= NoError

\* what the appliance holds after answering r to a call
ApplianceAfter(recs, op, in, r) ==
    IF ~Applied(r) THEN recs
    ELSE IF op = "add" THEN recs \cup {RecordKey(in.name, in.type, in.value)}
    ELSE recs \ {RecordKey(in.name, in.type, in.value)}

----------------------------------------------------------------------------
(* Provider.ApplyChanges *)

CurrentList == PhaseList(changes[1], phase)
CurrentEp == CurrentList[epi]
CurrentOp == IF IsDeletePhase(phase) THEN "delete" ELSE "add"
CurrentMethod == IF IsDeletePhase(phase) THEN "RecordDelete" ELSE "RecordAdd"

\* the error ApplyChanges returns when the client method failed with err:
\* DeleteChanges / CreateChanges wrap it, processDeletions / processCreations
\* wrap it again
ApplyError(p, err) ==
    IF IsDeletePhase(p)
    THEN Wrap("failed to delete endpoint", Wrap("failed to delete record", err))
    ELSE Wrap("failed to create endpoint", Wrap("failed to create record", err))

Ret(err) == [method |-> CurrentMethod, ep |-> CurrentEp, phase |-> phase,
             epi |-> epi, err |-> err]

\* the return of DeleteChanges / CreateChanges under dry-run, no client
\* method having been called
DryRunRet == [method |-> IF IsDeletePhase(phase) THEN "DeleteChanges" ELSE "CreateChanges",
              ep |-> CurrentEp, phase |-> phase, epi |-> epi, err |-> NoError]

\* the write path at rest
WriteIdle ==
    /\ dryRun = FALSE
    /\ changes = <<>>
    /\ pc = "off"
    /\ phase = 1
    /\ epi = 1
    /\ tgi = 1
    /\ calls = <<>>
    /\ appliance = {}
    /\ rets = <<>>
    /\ result = <<>>

\* the read path at rest
ReadIdle ==
    /\ records = <<>>
    /\ rpc = "off"
    /\ endpoints = <<>>
    /\ convErr = <<>>

\* AdjustEndpoints at rest
AdjustIdle ==
    /\ defaultTTL = I64(300)
    /\ createPTR = FALSE
    /\ adjEps = <<>>
    /\ adjIn = <<>>
    /\ adjRet = <<>>
    /\ adjCalls = MaxAdjustCalls

\* Zones and Records at rest
ZonesIdle ==
    /\ domainFilter = [include |-> {}, exclude |-> {}]
    /\ zoneListing = <<>>
    /\ zpc = "off"
    /\ zonesRet = <<>>
    /\ zi = 1
    /\ queried = <<>>
    /\ recEndpoints = <<>>
    /\ recordsRet = <<>>

\* the health server at rest: no request comes
HealthIdle ==
    /\ wsReady = FALSE
    /\ wsChannel = 0
    /\ apiStarted = TRUE
    /\ reqs = <<>>

InitWrite ==
    /\ ReadIdle
    /\ AdjustIdle
    /\ ZonesIdle
    /\ HealthIdle
    /\ dryRun \in BOOLEAN
    /\ changes \in {<<>>} \cup { <<c>> : c \in Batches }
    /\ pc = "idle"
    /\ phase = 1
    /\ epi = 1
    /\ tgi = 1
    /\ calls = <<>>
    /\ appliance = IF changes = <<>> THEN {} ELSE InitialRecords(changes[1])
    /\ rets = <<>>
    /\ result = NoError

\* entry of ApplyChanges: a nil batch returns nil at once
ApplyChangesBegin ==
    /\ pc = "idle"
    /\ IF changes = <<>>
       THEN pc' = "done"
       ELSE pc' = "loop"
    /\ UNCHANGED <<dryRun, changes, phase, epi, tgi, calls, appliance, rets, result>>
    /\ UNCHANGED <<readVars, adjVars, zoneVars, healthVars>>

\* the range loop of processDeletions / processCreations is exhausted
PhaseDone ==
    /\ pc = "loop"
    /\ epi > Len(CurrentList)
    /\ IF phase < 4
       THEN /\ phase' = phase + 1
            /\ epi' = 1
            /\ pc' = "loop"
       ELSE /\ pc' = "done"
            /\ UNCHANGED <<phase, epi>>
    /\ UNCHANGED <<dryRun, changes, tgi, calls, appliance, rets, result>>
    /\ UNCHANGED <<readVars, adjVars, zoneVars, healthVars>>

\* a slip: DeleteChanges does not look at DryRun
DryRunSkipsCreationsOnly(p, d) == d /\ ~IsDeletePhase(p)

\* DeleteChanges / CreateChanges in phase p return nil before any client call
\* when DryRun (d) is set
DryRunSkips(p, d) == d

\* DeleteChanges / CreateChanges on the next endpoint of the list, up to the
\* first appliance call
ProcessEndpoint ==
    /\ pc = "loop"
    /\ epi <= Len(CurrentList)
    /\ IF DryRunSkips(phase, dryRun)
       THEN \* the targets are logged and nil is returned
            /\ rets' = Append(rets, DryRunRet)
            /\ epi' = epi + 1
            /\ UNCHANGED <<pc, tgi, result>>
       ELSE IF TargetsMissing(CurrentEp)
       THEN /\ rets' = Append(rets, Ret(NoTargets))
            /\ result' = ApplyError(phase, NoTargets)
            /\ pc' = "done"
            /\ UNCHANGED <<epi, tgi>>
       ELSE IF Len(CurrentEp.targets) = 0
       THEN \* the range loop over the targets has nothing to do
            /\ rets' = Append(rets, Ret(NoError))
            /\ epi' = epi + 1
            /\ UNCHANGED <<pc, tgi, result>>
       ELSE /\ pc' = "targets"
            /\ tgi' = 1
            /\ UNCHANGED <<epi, rets, result>>
    /\ UNCHANGED <<dryRun, changes, phase, calls, appliance>>
    /\ UNCHANGED <<readVars, adjVars, zoneVars, healthVars>>

\* createSingleRecord / deleteSingleRecord for target tgi, the appliance
\* answering r
SingleRecordCall(r) ==
    /\ pc = "targets"
    /\ LET ep == CurrentEp
           in == IF CurrentOp = "add" THEN AddInput(ep, ep.targets[tgi])
                 ELSE DeleteInput(ep, ep.targets[tgi])
           err == IF CurrentOp = "add" THEN createSingleRecord(r)
                  ELSE deleteSingleRecord(r)
       IN /\ calls' = Append(calls, [op |-> CurrentOp, in |-> in, resp |-> r,
                                     phase |-> phase, epi |-> epi, tgi |-> tgi])
          /\ appliance' = ApplianceAfter(appliance, CurrentOp, in, r)
          /\ IF LoopAborts(err)
             THEN /\ rets' = Append(rets, Ret(err))
                  /\ result' = ApplyError(phase, err)
                  /\ pc' = "done"
                  /\ UNCHANGED <<epi, tgi>>
             ELSE IF tgi < Len(ep.targets)
             THEN /\ tgi' = tgi + 1
                  /\ UNCHANGED <<pc, epi, rets, result>>
             ELSE /\ rets' = Append(rets, Ret(NoError))
                  /\ pc' = "loop"
                  /\ epi' = epi + 1
                  /\ UNCHANGED <<tgi, result>>
    /\ UNCHANGED <<dryRun, changes, phase>>
    /\ UNCHANGED <<readVars, adjVars, zoneVars, healthVars>>

\* the caller has the result of ApplyChanges; the provider (DryRun as
\* configured) waits for the next call.  The log of calls and returns starts
\* anew, and what the appliance holds between two applies is not followed.
ApplyChangesOver ==
    /\ pc = "done"
    /\ pc' = "wait"
    /\ changes' = <<>>
    /\ phase' = 1
    /\ epi' = 1
    /\ tgi' = 1
    /\ calls' = <<>>
    /\ appliance' = {}
    /\ rets' = <<>>
    /\ result' = NoError
    /\ UNCHANGED dryRun
    /\ UNCHANGED <<readVars, adjVars, zoneVars, healthVars>>

\* ApplyChanges is called again with another batch, the appliance holding the
\* records the batch deletes
ApplyChangesAgain ==
    /\ pc = "wait"
    /\ changes' \in {<<>>} \cup { <<c>> : c \in Batches }
    /\ pc' = "idle"
    /\ phase' = 1
    /\ epi' = 1
    /\ tgi' = 1
    /\ calls' = <<>>
    /\ appliance' = IF changes' = <<>> THEN {} ELSE InitialRecords(changes'[1])
    /\ rets' = <<>>
    /\ result' = NoError
    /\ UNCHANGED dryRun
    /\ UNCHANGED <<readVars, adjVars, zoneVars, healthVars>>

Next ==
    \/ ApplyChangesBegin
    \/ PhaseDone
    \/ ProcessEndpoint
    \/ \E r \in Responses : SingleRecordCall(r)
    \/ ApplyChangesOver
    \/ ApplyChangesAgain

Spec == InitWrite /\ [][Next]_vars

----------------------------------------------------------------------------
(* Properties of the write path *)

IsPrefix(s, t) == Len(s) <= Len(t) /\ \A i \in 1..Len(s) : s[i] = t[i]

\* a call as the appliance sees it: operation and record key
Issued(c) == [op |-> c.op, name |-> c.in.name, type |-> c.in.type, value |-> c.in.value]

IssuedCalls == [i \in 1..Len(calls) |-> Issued(calls[i])]

ExpectedFor(op, ep) ==
    [i \in 1..Len(ep.targets) |->
        [op |-> op, name |-> ep.name, type |-> ep.type, value |-> ep.targets[i]]]

RECURSIVE ExpectedList(_, _)
ExpectedList(op, eps) ==
    IF eps = <<>> THEN <<>>
    ELSE ExpectedFor(op, Head(eps)) \o ExpectedList(op, Tail(eps))

\* the calls of a whole batch: Delete, UpdateOld, Create, UpdateNew
ExpectedCalls(c) ==
    ExpectedList("delete", c.Delete) \o ExpectedList("delete", c.UpdateOld)
    \o ExpectedList("add", c.Create) \o ExpectedList("add", c.UpdateNew)

\* the call returned an error to RecordAdd / RecordDelete
FailedCall(c) == c.resp.err \/ c.resp.status >= 400

Returned == pc = "done"

\* C1: with dry-run off the calls issued so far are always an initial part of
\* the batch's calls taken in the order Delete, UpdateOld, Create, UpdateNew
\* (endpoints in list order, targets in target order), and an apply that
\* returned nil has issued all of them: no create call precedes a delete call.
C1_PhaseOrder ==
    (changes /= <<>> /\ ~dryRun) =>
        /\ IsPrefix(IssuedCalls, ExpectedCalls(changes[1]))
        /\ (Returned /\ result = NoError) => IssuedCalls = ExpectedCalls(changes[1])

\* a finished apply of {Delete: [X], Create: [Y]}, X and Y with two targets:
\* two delete calls, then two create calls
C1_Witness ==
    /\ Returned /\ ~dryRun /\ result = NoError /\ changes /= <<>>
    /\ Len(changes[1].Delete) = 1 /\ Len(changes[1].Create) = 1
    /\ Len(calls) = 4
    /\ calls[1].op = "delete" /\ calls[2].op = "delete"
    /\ calls[3].op = "add" /\ calls[4].op = "add"

RECURSIVE Replay(_, _)
Replay(recs, cs) ==
    IF cs = <<>> THEN recs
    ELSE LET c == Head(cs)
             key == RecordKey(c.in.name, c.in.type, c.in.value)
             next == IF c.resp.err \/ c.resp.status >= 400 \/ ~c.resp.success
                     THEN recs
                     ELSE IF c.op = "add" THEN recs \cup {key} ELSE recs \ {key}
         IN Replay(next, Tail(cs))

\* C2: a failed call is the last call ever issued, the apply has returned an
\* error, and the appliance holds what the calls before it left there.
C2_AbortOnFailure ==
    /\ \A i \in 1..Len(calls) :
          FailedCall(calls[i]) =>
              /\ i = Len(calls)
              /\ Returned
              /\ result /= NoError
    /\ changes /= <<>> =>
          appliance = Replay(InitialRecords(changes[1]), calls)

\* an apply aborted by its second call, the first create call of an endpoint
\* with two targets, after a delete call that was applied
C2_Witness ==
    /\ Returned /\ result /= NoError
    /\ Len(calls) = 2
    /\ FailedCall(calls[2])
    /\ Applied(calls[1].resp)
    /\ calls[1].op = "delete" /\ calls[2].op = "add"
    /\ Len(changes[1].Create) = 1
    /\ Len(changes[1].Create[1].targets) = 2

CallsOf(p, e) == SelectSeq(calls, LAMBDA c : c.phase = p /\ c.epi = e)

\* the calls issued for the endpoint of return rt are one per target, in target
\* order, up to the first failing one
FanOut(rt, op) ==
    LET cs == CallsOf(rt.phase, rt.epi)
        n == Len(rt.ep.targets)
        k == Len(cs)
    IN /\ k <= n
       /\ \A j \in 1..k :
             /\ cs[j].op = op
             /\ cs[j].in.name = rt.ep.name
             /\ cs[j].in.type = rt.ep.type
             /\ cs[j].in.value = rt.ep.targets[j]
             /\ j < k => ~FailedCall(cs[j])
       /\ rt.err = NoError => (k = n /\ \A j \in 1..k : ~FailedCall(cs[j]))
       /\ rt.err /= NoError =>
             /\ k >= 1
             /\ FailedCall(cs[k])
             /\ Returned
             /\ rt = rets[Len(rets)]
             /\ calls[Len(calls)] = cs[k]

\* the records the appliance made for the targets before the failing one are
\* still there when RecordAdd returns its error
CreatedRemain(rt) ==
    LET cs == CallsOf(rt.phase, rt.epi)
    IN rt.err /= NoError =>
          \A j \in 1..Len(cs) :
              Applied(cs[j].resp) =>
                  RecordKey(rt.ep.name, rt.ep.type, rt.ep.targets[j]) \in appliance

\* every create call carries the TTL of its endpoint
CarriesTTL(rt) ==
    LET cs == CallsOf(rt.phase, rt.epi)
    IN \A j \in 1..Len(cs) : I64(cs[j].in.ttl) = rt.ep.ttl

AddReturns == { i \in 1..Len(rets) :
                  rets[i].method = "RecordAdd" /\ Len(rets[i].ep.targets) >= 1 }

DeleteReturns == { i \in 1..Len(rets) :
                     rets[i].method = "RecordDelete" /\ Len(rets[i].ep.targets) >= 1 }

\* C3: RecordAdd of an endpoint with N >= 1 targets issues one create call per
\* target, in target order, each carrying the endpoint's name, type, TTL and
\* that target; all N when none fails, and when the k-th fails exactly k, the
\* error is returned and the records already created remain.
C3_CreateFanOut ==
    \A i \in AddReturns :
        /\ FanOut(rets[i], "add")
        /\ CreatedRemain(rets[i])
        /\ CarriesTTL(rets[i])

\* C3 without the TTL: number, order, name, type and target of the create
\* calls, the abort on the first failure and the records left behind
C3_CreateFanOutBut32BitTTL ==
    \A i \in AddReturns :
        /\ FanOut(rets[i], "add")
        /\ CreatedRemain(rets[i])
        /\ \A j \in 1..Len(CallsOf(rets[i].phase, rets[i].epi)) :
              CallsOf(rets[i].phase, rets[i].epi)[j].in.ttl = ToInt32(rets[i].ep.ttl)

\* a RecordAdd of two targets whose second call failed after the first created
\* its record
C3_Witness ==
    \E i \in AddReturns :
        /\ Len(rets[i].ep.targets) = 2
        /\ rets[i].err /= NoError
        /\ Len(CallsOf(rets[i].phase, rets[i].epi)) = 2
        /\ Applied(CallsOf(rets[i].phase, rets[i].epi)[1].resp)

\* C4: RecordAdd / RecordDelete of an endpoint without targets returns the
\* "no targets" error without any appliance call, the apply returns an error
\* that wraps it, and no apply that reached such an endpoint with dry-run off
\* returns nil.
C4_EmptyTargets ==
    /\ \A i \in 1..Len(rets) :
          (rets[i].method \in {"RecordAdd", "RecordDelete"}
             /\ Len(rets[i].ep.targets) = 0) =>
              /\ rets[i].err = NoTargets
              /\ CallsOf(rets[i].phase, rets[i].epi) = <<>>
              /\ i = Len(rets)
              /\ Returned
              /\ Len(result) = 3
              /\ SubSeq(result, 3, 3) = NoTargets
    /\ (Returned /\ ~dryRun /\ result = NoError /\ changes /= <<>>) =>
          \A p \in Phases : \A e \in 1..Len(PhaseList(changes[1], p)) :
              Len(PhaseList(changes[1], p)[e].targets) >= 1

\* an apply that made two calls and then met an endpoint without targets
C4_Witness ==
    /\ Returned /\ rets /= <<>>
    /\ Len(rets[Len(rets)].ep.targets) = 0
    /\ rets[Len(rets)].method = "RecordAdd"
    /\ Len(calls) = 2

\* C5: RecordDelete of an endpoint with N >= 1 targets issues one delete call
\* per target, in target order, keyed by name, type and that target; the first
\* failing call ends the loop, and the deletions made before it are not undone.
C5_DeleteFanOut ==
    \A i \in DeleteReturns :
        /\ FanOut(rets[i], "delete")
        /\ LET cs == CallsOf(rets[i].phase, rets[i].epi)
           IN /\ \A j \in 1..Len(cs) :
                    cs[j].in = [name |-> rets[i].ep.name, type |-> rets[i].ep.type,
                                value |-> rets[i].ep.targets[j]]
              /\ rets[i].err /= NoError =>
                    \A j \in 1..Len(cs) :
                        Applied(cs[j].resp) =>
                            RecordKey(rets[i].ep.name, rets[i].ep.type,
                                      rets[i].ep.targets[j]) \notin appliance

\* a RecordDelete of two targets whose second call failed after the first
\* deleted its record
C5_Witness ==
    \E i \in DeleteReturns :
        /\ Len(rets[i].ep.targets) = 2
        /\ rets[i].err /= NoError
        /\ Len(CallsOf(rets[i].phase, rets[i].epi)) = 2
        /\ Applied(CallsOf(rets[i].phase, rets[i].epi)[1].resp)

----------------------------------------------------------------------------
(* Read path: appliance rows to endpoints *)

RowNames == {"a.co", "b.co"}
RowTypes == {"A", "TXT", "CNAME", "MX"}

\* rr_ttl is a string: here a sequence of characters
RowTTLs == { <<"6", "0">>, <<"6", "s">>, <<>> }

Row(name, type, ttl, value) ==
    [fullName |-> name, type |-> type, ttl |-> ttl, value |-> value]

RowShapes == RowNames \X RowTypes \X RowTTLs

\* the rows of a zone are distinct records: the i-th row holds the i-th value
RowsOf(f) == [i \in 1..Len(f) |-> Row(f[i][1], f[i][2], f[i][3], TargetVal(i))]

Digits == <<"0", "1", "2", "3", "4", "5", "6", "7", "8", "9">>

IsDigit(c) == \E d \in 1..10 : Digits[d] = c

DigitVal(c) == (CHOOSE d \in 1..10 : Digits[d] = c) - 1

RECURSIVE DecVal(_)
DecVal(s) == IF s = <<>> THEN 0
             ELSE DecVal(SubSeq(s, 1, Len(s) - 1)) * 10 + DigitVal(s[Len(s)])

\* strconv.Atoi on a string of a few characters: an optional sign, then one
\* or more decimal digits; anything else is a syntax error (value 0)
Atoi(s) ==
    LET signed == s /= <<>> /\ Head(s) \in {"+", "-"}
        body == IF signed THEN Tail(s) ELSE s
        ok == body /= <<>> /\ \A i \in 1..Len(body) : IsDigit(body[i])
    IN [ok |-> ok,
        val |-> IF ~ok THEN 0
                ELSE IF signed /\ Head(s) = "-" THEN 0 - DecVal(body)
                ELSE DecVal(body)]

FallbackTTL == 300

\* a slip: the value Atoi returned is used also when it reported an error
RowTTLUnchecked(rr) == Atoi(rr.ttl).val

\* the TTL convertRecordsToEndpoints gives a row
RowTTL(rr) == IF Atoi(rr.ttl).ok THEN Atoi(rr.ttl).val ELSE FallbackTTL

\* endpoint.NewEndpointWithTTL; the names and values of the rows end in no dot,
\* so the constructor has nothing to trim
NewEndpointWithTTL(name, recordType, ttl, target) ==
    Endpoint(name, recordType, ttl, <<target>>)

\* hostRecords is keyed by rr_full_name + ":A": one key per full name
HostKey(rr) == rr.fullName

\* a slip: a later "A" row replaces the endpoint of its name
handleARecordOverwrite(rr, ttl, hostRecords) ==
    [k \in DOMAIN hostRecords \cup {HostKey(rr)} |->
        IF k = HostKey(rr)
        THEN NewEndpointWithTTL(rr.fullName, RecordTypeA, I64(ttl), rr.value)
        ELSE hostRecords[k]]

\* a slip: a later row of the name brings its TTL along with its value
handleARecordLastTTL(rr, ttl, hostRecords) ==
    IF HostKey(rr) \in DOMAIN hostRecords
    THEN [hostRecords EXCEPT ![HostKey(rr)].targets = Append(@, rr.value),
                             ![HostKey(rr)].ttl = I64(ttl)]
    ELSE hostRecords @@
         (HostKey(rr) :> NewEndpointWithTTL(rr.fullName, RecordTypeA, I64(ttl), rr.value))

handleARecord(rr, ttl, hostRecords) ==
    IF HostKey(rr) \in DOMAIN hostRecords
    THEN [hostRecords EXCEPT ![HostKey(rr)].targets = Append(@, rr.value)]
    ELSE hostRecords @@
         (HostKey(rr) :> NewEndpointWithTTL(rr.fullName, RecordTypeA, I64(ttl), rr.value))

createStandardEndpoint(rr, ttl) ==
    NewEndpointWithTTL(rr.fullName, rr.type, I64(ttl), rr.value)

\* a slip: the case of the switch names "TXT" only
ProcessRecordTXTOnly(acc, rr) ==
    CASE rr.type = "A" ->
            [acc EXCEPT !.hostRecords = handleARecord(rr, RowTTL(rr), @)]
      [] rr.type \in {"TXT"} ->
            [acc EXCEPT !.endpoints = Append(@, createStandardEndpoint(rr, RowTTL(rr)))]
      [] OTHER -> acc

\* a slip: the default case makes an endpoint too
ProcessRecordKeepAll(acc, rr) ==
    CASE rr.type = "A" ->
            [acc EXCEPT !.hostRecords = handleARecord(rr, RowTTL(rr), @)]
      [] OTHER ->
            [acc EXCEPT !.endpoints = Append(@, createStandardEndpoint(rr, RowTTL(rr)))]

\* the body of the loop over the rows; acc holds endpoints and hostRecords
ProcessRecord(acc, rr) ==
    CASE rr.type = "A" ->
            [acc EXCEPT !.hostRecords = handleARecord(rr, RowTTL(rr), @)]
      [] rr.type \in {"TXT", "CNAME"} ->
            [acc EXCEPT !.endpoints = Append(@, createStandardEndpoint(rr, RowTTL(rr)))]
      [] OTHER -> acc

RECURSIVE ProcessRecords(_, _)
ProcessRecords(acc, rs) ==
    IF rs = <<>> THEN acc
    ELSE ProcessRecords(ProcessRecord(acc, Head(rs)), Tail(rs))

Accumulated(rs) == ProcessRecords([endpoints |-> <<>>, hostRecords |-> <<>>], rs)

\* the orders in which a range over the map may visit its keys
MapOrders(m) ==
    { o \in [1..Cardinality(DOMAIN m) -> DOMAIN m] :
        \A i, j \in 1..Cardinality(DOMAIN m) : o[i] = o[j] => i = j }

\* a slip: the merged endpoints are put in front of the others
convertRecordsToEndpointsAFirst(rs, order) ==
    LET acc == Accumulated(rs)
    IN [endpoints |-> [i \in 1..Len(order) |-> acc.hostRecords[order[i]]] \o acc.endpoints,
        err |-> NoError]

\* convertRecordsToEndpoints, the map being visited in the given order
convertRecordsToEndpoints(rs, order) ==
    LET acc == Accumulated(rs)
    IN [endpoints |-> acc.endpoints \o [i \in 1..Len(order) |-> acc.hostRecords[order[i]]],
        err |-> NoError]

InitRead ==
    /\ WriteIdle
    /\ AdjustIdle
    /\ ZonesIdle
    /\ HealthIdle
    /\ \E n \in 0..MaxRows : \E f \in [1..n -> RowShapes] : records = RowsOf(f)
    /\ rpc = "rows"
    /\ endpoints = <<>>
    /\ convErr = NoError

ConvertRecords ==
    /\ rpc = "rows"
    /\ \E order \in MapOrders(Accumulated(records).hostRecords) :
          LET out == convertRecordsToEndpoints(records, order)
          IN /\ endpoints' = out.endpoints
             /\ convErr' = out.err
    /\ rpc' = "done"
    /\ UNCHANGED <<records, writeVars, adjVars, zoneVars, healthVars>>

NextRead == ConvertRecords

SpecRead == InitRead /\ [][NextRead]_vars

----------------------------------------------------------------------------
(* Properties of the read path *)

Converted == rpc = "done"

ARows(name) == SelectSeq(records, LAMBDA r : r.type = "A" /\ r.fullName = name)

AEndpointsAt(name) ==
    { i \in 1..Len(endpoints) : endpoints[i].type = "A" /\ endpoints[i].name = name }

ValuesOf(rs) == [i \in 1..Len(rs) |-> rs[i].value]

NamesSeen ==
    { records[i].fullName : i \in 1..Len(records) }
    \cup { endpoints[i].name : i \in 1..Len(endpoints) }

\* C6: after the translation each full name with at least one "A" row has
\* exactly one "A" endpoint, whose targets are the values of the "A" rows of
\* that name in row order; a name without "A" rows has no "A" endpoint.
C6_AGrouping ==
    Converted =>
        \A name \in NamesSeen :
            /\ Cardinality(AEndpointsAt(name)) = IF ARows(name) = <<>> THEN 0 ELSE 1
            /\ \A i \in AEndpointsAt(name) :
                  /\ endpoints[i].targets = ValuesOf(ARows(name))
                  /\ Len(endpoints[i].targets) = Len(ARows(name))

\* two "A" rows of one name around a row of another name, merged
C6_Witness ==
    /\ Converted
    /\ Len(records) = 3
    /\ records[1].type = "A" /\ records[2].type = "A" /\ records[3].type = "A"
    /\ records[1].fullName = records[3].fullName
    /\ records[1].fullName /= records[2].fullName
    /\ Len(endpoints) = 2
    /\ \E i \in 1..2 : endpoints[i].targets = <<records[1].value, records[3].value>>

IsStandard(t) == t \in {"TXT", "CNAME"}

StandardRows == SelectSeq(records, LAMBDA r : IsStandard(r.type))

StandardEndpoints == SelectSeq(endpoints, LAMBDA e : IsStandard(e.type))

\* C7: the "TXT" and "CNAME" endpoints are, one for one, the "TXT" and "CNAME"
\* rows: as many endpoints as rows, each with the name, the type and the single
\* value of its row, also when rows share name and type.
C7_NoMerging ==
    Converted =>
        /\ Len(StandardEndpoints) = Len(StandardRows)
        /\ \A k \in 1..Len(StandardRows) :
              /\ StandardEndpoints[k].name = StandardRows[k].fullName
              /\ StandardEndpoints[k].type = StandardRows[k].type
              /\ StandardEndpoints[k].targets = <<StandardRows[k].value>>

\* two TXT rows and a CNAME row of the same name, kept as three endpoints
C7_Witness ==
    /\ Converted
    /\ Len(records) = 3
    /\ records[1].type = "TXT" /\ records[2].type = "TXT" /\ records[3].type = "CNAME"
    /\ records[1].fullName = records[2].fullName
    /\ records[2].fullName = records[3].fullName
    /\ Len(endpoints) = 3

\* the string is an integer in decimal notation
ParsesAsInteger(s) ==
    LET body == IF s /= <<>> /\ s[1] \in {"+", "-"} THEN SubSeq(s, 2, Len(s)) ELSE s
    IN body /= <<>> /\ \A i \in 1..Len(body) :
                          body[i] \in {"0", "1", "2", "3", "4", "5", "6", "7", "8", "9"}

\* the row makes an endpoint of its own: a TXT or CNAME row, or the first "A"
\* row of its name
MakesEndpoint(i) ==
    \/ IsStandard(records[i].type)
    \/ /\ records[i].type = "A"
       /\ \A j \in 1..(i - 1) :
             ~(records[j].type = "A" /\ records[j].fullName = records[i].fullName)

\* the endpoint made by row i
EndpointOfRow(i) ==
    IF IsStandard(records[i].type)
    THEN StandardEndpoints[Len(SelectSeq(SubSeq(records, 1, i),
                                         LAMBDA r : IsStandard(r.type)))]
    ELSE endpoints[CHOOSE k \in AEndpointsAt(records[i].fullName) : TRUE]

\* C8: the translation never returns an error, and the endpoint made by a row
\* whose TTL is no integer has TTL 300.
C8_BadTTLDefaults ==
    Converted =>
        /\ convErr = NoError
        /\ \A i \in 1..Len(records) :
              (MakesEndpoint(i) /\ ~ParsesAsInteger(records[i].ttl)) =>
                  EndpointOfRow(i).ttl = [hi |-> 0, lo |-> 300]

\* a TXT row and an "A" row with unparseable TTLs next to a row with TTL 60
C8_Witness ==
    /\ Converted
    /\ Len(records) = 3
    /\ records[1].type = "TXT" /\ ~ParsesAsInteger(records[1].ttl)
    /\ records[2].type = "A" /\ ~ParsesAsInteger(records[2].ttl)
    /\ records[3].type = "CNAME" /\ ParsesAsInteger(records[3].ttl)
    /\ Len(endpoints) = 3
    /\ endpoints[2].ttl /= endpoints[1].ttl

ANames == { records[i].fullName : i \in { j \in 1..Len(records) : records[j].type = "A" } }

\* C9: no endpoint has a type other than "A", "TXT", "CNAME"; the endpoints
\* number the TXT and CNAME rows plus the distinct names of the "A" rows; no
\* error is returned.
C9_UnknownTypesDropped ==
    Converted =>
        /\ convErr = NoError
        /\ \A i \in 1..Len(endpoints) : endpoints[i].type \in {"A", "TXT", "CNAME"}
        /\ Len(endpoints) = Len(StandardRows) + Cardinality(ANames)

\* an MX row between an "A" row and a TXT row, absent from the two endpoints
C9_Witness ==
    /\ Converted
    /\ Len(records) = 3
    /\ records[1].type = "A" /\ records[2].type = "MX" /\ records[3].type = "TXT"
    /\ Len(endpoints) = 2

----------------------------------------------------------------------------
(* Provider.AdjustEndpoints *)

providerSpecificEfficientipPtrRecord == "efficientip-ptr-record-exists"

Property(name, value) == [name |-> name, value |-> value]

\* endpoint.TTL.IsConfigured: the TTL is greater than zero
IsConfigured(ttl) == ttl.hi > 0 \/ (ttl.hi = 0 /\ ttl.lo > 0)

\* the index of the first tracking annotation of ps, 0 when there is none
FirstTracking(ps) ==
    IF \E i \in 1..Len(ps) : ps[i].name = providerSpecificEfficientipPtrRecord
    THEN CHOOSE i \in 1..Len(ps) :
            /\ ps[i].name = providerSpecificEfficientipPtrRecord
            /\ \A j \in 1..(i - 1) : ps[j].name /= providerSpecificEfficientipPtrRecord
    ELSE 0

\* a slip: the annotation is appended without looking for an existing one
addPTRRecordTrackingAppend(ep) ==
    [ep EXCEPT !.ps = Append(@, Property(providerSpecificEfficientipPtrRecord, "true"))]

addPTRRecordTracking(ep) ==
    IF FirstTracking(ep.ps) /= 0
    THEN [ep EXCEPT !.ps[FirstTracking(ep.ps)].value = "true"]
    ELSE [ep EXCEPT !.ps = Append(@, Property(providerSpecificEfficientipPtrRecord, "true"))]

\* a slip: the test of IsConfigured is inverted
AdjustEndpointInverted(ep, dttl, ptr) ==
    LET e1 == IF IsConfigured(ep.ttl) THEN [ep EXCEPT !.ttl = dttl] ELSE ep
    IN IF ptr /\ e1.type = RecordTypeA THEN addPTRRecordTracking(e1) ELSE e1

\* a slip: the record type is not looked at before the annotation is added
AdjustEndpointTrackAll(ep, dttl, ptr) ==
    LET e1 == IF ~IsConfigured(ep.ttl) THEN [ep EXCEPT !.ttl = dttl] ELSE ep
    IN IF ptr THEN addPTRRecordTracking(e1) ELSE e1

\* one turn of the loop of AdjustEndpoints
AdjustEndpoint(ep, dttl, ptr) ==
    LET e1 == IF ~IsConfigured(ep.ttl) THEN [ep EXCEPT !.ttl = dttl] ELSE ep
    IN IF ptr /\ e1.type = RecordTypeA THEN addPTRRecordTracking(e1) ELSE e1

AdjustEndpoints(eps, dttl, ptr) ==
    IF Len(eps) = 0 THEN eps
    ELSE [i \in 1..Len(eps) |-> AdjustEndpoint(eps[i], dttl, ptr)]

\* EIP_DEFAULT_TTL is any integer the environment gives
DefaultTTLs == { I64(300), I64(0), I64(0 - 5), I64Big(0) }

AdjustTTLs == { I64(0), I64(0 - 1), I64(60) }

AdjustAnnotations ==
    { <<>>,
      <<Property(providerSpecificEfficientipPtrRecord, "false")>>,
      <<Property("other", "x"), Property(providerSpecificEfficientipPtrRecord, "true")>>,
      <<Property("other", "x")>>,
      <<Property(providerSpecificEfficientipPtrRecord, "false"),
        Property(providerSpecificEfficientipPtrRecord, "false")>> }

AdjustPool ==
    { [name |-> "a.co", type |-> t, ttl |-> l, targets |-> <<"1.1.1.1">>,
       ps |-> a, labels |-> {<<"owner", "default">>}] :
        t \in {"A", "TXT"}, l \in AdjustTTLs, a \in AdjustAnnotations }

InitAdjust ==
    /\ WriteIdle
    /\ ReadIdle
    /\ ZonesIdle
    /\ HealthIdle
    /\ defaultTTL \in DefaultTTLs
    /\ createPTR \in BOOLEAN
    /\ \E n \in 0..MaxAdjust : adjEps \in [1..n -> AdjustPool]
    /\ adjIn = adjEps
    /\ adjRet = <<>>
    /\ adjCalls = 0

AdjustEndpointsCall ==
    /\ adjCalls < MaxAdjustCalls
    /\ adjIn' = adjEps
    /\ adjEps' = AdjustEndpoints(adjEps, defaultTTL, createPTR)
    /\ adjRet' = adjEps'
    /\ adjCalls' = adjCalls + 1
    /\ UNCHANGED <<defaultTTL, createPTR, writeVars, readVars, zoneVars, healthVars>>

NextAdjust == AdjustEndpointsCall

SpecAdjust == InitAdjust /\ [][NextAdjust]_vars

----------------------------------------------------------------------------
(* Properties of AdjustEndpoints *)

Adjusted == adjCalls >= 1

Positive(t) == t.hi > 0 \/ (t.hi = 0 /\ t.lo > 0)

TTLsAdjusted ==
    /\ Len(adjRet) = Len(adjIn)
    /\ \A i \in 1..Len(adjIn) :
          /\ Positive(adjIn[i].ttl) => adjRet[i].ttl = adjIn[i].ttl
          /\ ~Positive(adjIn[i].ttl) => adjRet[i].ttl = defaultTTL

IsTracking(prop) == prop.name = "efficientip-ptr-record-exists"

TrackingAt(ps) == { j \in 1..Len(ps) : IsTracking(ps[j]) }

\* the entries of ps after those of before: the first tracking annotation of
\* before holds "true", every other entry is as it was
OverwrittenInPlace(before, after) ==
    /\ Len(after) = Len(before)
    /\ \A j \in 1..Len(before) :
          IF j \in TrackingAt(before) /\ \A k \in TrackingAt(before) : j <= k
          THEN after[j] = [name |-> "efficientip-ptr-record-exists", value |-> "true"]
          ELSE after[j] = before[j]

C17_AdjustFrame ==
    Adjusted =>
        /\ adjRet = adjEps
        /\ Len(adjRet) = Len(adjIn)
        /\ \A i \in 1..Len(adjIn) :
              /\ adjRet[i].name = adjIn[i].name
              /\ adjRet[i].type = adjIn[i].type
              /\ adjRet[i].targets = adjIn[i].targets
              /\ adjRet[i].labels = adjIn[i].labels
              /\ (~createPTR \/ adjIn[i].type /= "A") => adjRet[i].ps = adjIn[i].ps

\* one call with PTR tracking on, on a TXT endpoint and an "A" endpoint that
\* both lacked a TTL: only the "A" endpoint's annotations changed
C17_Witness ==
    /\ adjCalls = 1 /\ createPTR
    /\ Len(adjIn) = 2
    /\ adjIn[1].type = "TXT" /\ adjIn[2].type = "A"
    /\ adjRet[1].ttl /= adjIn[1].ttl
    /\ adjRet[1].ps = adjIn[1].ps /\ adjIn[1].ps /= <<>>
    /\ adjRet[2].ps /= adjIn[2].ps

\* C16: in the endpoints of one conversion the TXT and CNAME endpoints stand
\* in the order of their rows, and each of them stands before every "A"
\* endpoint.
C16_StandardBeforeA ==
    Converted =>
        /\ Len(StandardEndpoints) = Len(StandardRows)
        /\ \A i \in 1..Len(StandardEndpoints) :
              /\ StandardEndpoints[i].name = StandardRows[i].fullName
              /\ StandardEndpoints[i].type = StandardRows[i].type
              /\ StandardEndpoints[i].targets = <<StandardRows[i].value>>
        /\ \A i, j \in 1..Len(endpoints) :
              (IsStandard(endpoints[i].type) /\ endpoints[j].type = "A") => i < j

\* an "A" row comes first, then a CNAME row and a TXT row: the endpoints are
\* CNAME, TXT, "A"
C16_Witness ==
    /\ Converted
    /\ Len(records) = 3
    /\ records[1].type = "A" /\ records[2].type = "CNAME" /\ records[3].type = "TXT"
    /\ Len(endpoints) = 3
    /\ endpoints[1].type = "CNAME" /\ endpoints[2].type = "TXT" /\ endpoints[3].type = "A"

\* C18: the TTL of the "A" endpoint of a name is the TTL of the first "A" row
\* of that name, parsed, or the fallback when it does not parse; the later
\* rows of the name do not change it.
C18_FirstRowTTL ==
    Converted =>
        \A name \in RowNames :
            ARows(name) /= <<>> =>
                /\ AEndpointsAt(name) /= {}
                /\ \A i \in AEndpointsAt(name) :
                      endpoints[i].ttl = I64(RowTTL(ARows(name)[1]))

\* three "A" rows of one name: the first TTL does not parse, the second is
\* 60: the endpoint has the three values and the fallback TTL
C18_Witness ==
    /\ Converted
    /\ Len(records) = 3
    /\ \A i \in 1..3 : records[i].type = "A" /\ records[i].fullName = "a.co"
    /\ ~Atoi(records[1].ttl).ok
    /\ records[2].ttl = <<"6", "0">>
    /\ Len(endpoints) = 1
    /\ Len(endpoints[1].targets) = 3
    /\ endpoints[1].ttl = I64(300)

StartRecords == IF changes = <<>> THEN {} ELSE InitialRecords(changes[1])

EndpointsOf(c) == Len(c.Delete) + Len(c.UpdateOld) + Len(c.Create) + Len(c.UpdateNew)

\* C13: with dry-run on, no ApplyChanges, the first or a later one, issues a
\* create or a delete call: each DeleteChanges / CreateChanges returns nil,
\* ApplyChanges returns nil having gone through every endpoint, and the
\* appliance holds the records it held when the apply began.
C13_DryRunNoCalls ==
    dryRun =>
        /\ calls = <<>>
        /\ appliance = StartRecords
        /\ result = NoError
        /\ \A i \in 1..Len(rets) : rets[i].err = NoError
        /\ (Returned /\ changes /= <<>>) => Len(rets) = EndpointsOf(changes[1])

\* a dry run over a batch that deletes one endpoint and creates another, both
\* with targets, has returned
C13_Witness ==
    /\ dryRun /\ Returned /\ changes /= <<>>
    /\ Len(changes[1].Delete) = 1 /\ changes[1].Delete[1].targets /= <<>>
    /\ Len(changes[1].Create) = 1 /\ changes[1].Create[1].targets /= <<>>
    /\ Len(rets) = 2
    /\ rets[1].method = "DeleteChanges" /\ rets[2].method = "CreateChanges"
    /\ appliance /= {}
    /\ calls = <<>>

\* the response carries a status of 400 or more, or a body that says failure
Refused(r) == ~r.err /\ (r.status >= 400 \/ ~r.success)

\* C14 (create and delete calls): a create or delete call whose response is
\* refused is the last call of the apply, and ApplyChanges returns an error.
C14_RefusalSurfaced ==
    \A i \in 1..Len(calls) :
        Refused(calls[i].resp) =>
            /\ i = Len(calls)
            /\ Returned
            /\ result /= NoError

\* a create call answered with status 200 and a body that says failure, in an
\* apply that returned nil
C14_Witness ==
    /\ Returned /\ result = NoError
    /\ \E i \in 1..Len(calls) :
          /\ calls[i].op = "add"
          /\ calls[i].resp = Response(FALSE, 200, FALSE)

\* what C14 says of create and delete calls when only the status is looked at
C14_StatusSurfaced ==
    \A i \in 1..Len(calls) :
        (~calls[i].resp.err /\ calls[i].resp.status >= 400) =>
            /\ i = Len(calls)
            /\ Returned
            /\ result /= NoError

-----------------------------------------------------------------------------
(* Provider.Zones and Provider.Records *)

MaxZones == 2

\* a domain name is the sequence of its labels: a.com is <<"a", "com">>
ZoneNames == { <<"a", "com">>, <<"b", "com">>, <<"x", "a", "com">> }

ZoneIdOf(name) ==
    CASE name = <<"a", "com">> -> "1"
      [] name = <<"b", "com">> -> "2"
      [] OTHER -> "3"

\* one entry of the data of a DnsZoneList response
ZoneData(name) == [zone_name |-> name, zone_type |-> "master", zone_id |-> ZoneIdOf(name)]

NewZoneAuth(zone) == [Name |-> zone.zone_name, Type |-> zone.zone_type, ID |-> zone.zone_id]

convertZoneData(zones) == [i \in 1..Len(zones) |-> NewZoneAuth(zones[i])]

\* the zones the appliance may list: distinct, in any order
ZoneLists ==
    UNION { { f \in [1..n -> ZoneNames] : \A i, j \in 1..n : f[i] = f[j] => i = j }
            : n \in 0..MaxZones }

\* a list response: transport error, HTTP status, presence and value of the
\* success flag, data
ListResponse(err, status, hasSuccess, success, data) ==
    [err |-> err, status |-> status, hasSuccess |-> hasSuccess,
     success |-> success, data |-> data]

\* the answers to a list call whose data would be d
ListResponses(d) ==
    { ListResponse(FALSE, 200, TRUE, TRUE, d),       \* listed
      ListResponse(FALSE, 200, TRUE, FALSE, d),      \* body says failure
      ListResponse(FALSE, 200, FALSE, FALSE, <<>>),  \* body without the flag
      ListResponse(FALSE, 500, FALSE, FALSE, <<>>),  \* rejected
      ListResponse(TRUE, 0, FALSE, FALSE, <<>>) }    \* no answer

\* the domain is the filter or ends with "." and the filter
IsSuffix(f, d) == Len(f) <= Len(d) /\ SubSeq(d, Len(d) - Len(f) + 1, Len(d)) = f

matchFilter(filters, domain, emptyval) ==
    IF filters = {} THEN emptyval
    ELSE \E f \in filters : IsSuffix(f, domain)

\* DomainFilter.Match for a filter made of an inclusion and an exclusion list
Match(df, domain) ==
    matchFilter(df.include, domain, TRUE) /\ ~matchFilter(df.exclude, domain, FALSE)

DomainFilters ==
    { [include |-> {}, exclude |-> {}],
      [include |-> {<<"a", "com">>}, exclude |-> {}],
      [include |-> {<<"b", "com">>}, exclude |-> {}],
      [include |-> {<<"a", "com">>}, exclude |-> {<<"x", "a", "com">>}] }

\* EfficientIPAPI.ZonesList on response r: zones and error
ZonesList(r) ==
    IF r.err THEN [zones |-> <<>>, err |-> <<"API request failed", "request failed">>]
    ELSE IF r.status >= 400 THEN [zones |-> <<>>, err |-> <<"API returned status">>]
    ELSE IF ~r.hasSuccess \/ ~r.success
    THEN [zones |-> <<>>, err |-> <<"API response indicated failure">>]
    ELSE [zones |-> convertZoneData(r.data), err |-> NoError]

\* a slip: the test of the filter is inverted
RECURSIVE FilterZonesInverted(_, _)
FilterZonesInverted(df, zones) ==
    IF zones = <<>> THEN <<>>
    ELSE IF Match(df, Head(zones).Name)
    THEN FilterZonesInverted(df, Tail(zones))
    ELSE <<Head(zones)>> \o FilterZonesInverted(df, Tail(zones))

\* the loop of Zones over the zones listed
RECURSIVE FilterZones(_, _)
FilterZones(df, zones) ==
    IF zones = <<>> THEN <<>>
    ELSE IF ~Match(df, Head(zones).Name)
    THEN FilterZones(df, Tail(zones))
    ELSE <<Head(zones)>> \o FilterZones(df, Tail(zones))

\* Provider.Zones, the appliance answering r to the zone listing
Zones(df, r) ==
    LET listed == ZonesList(r)
    IN IF listed.err /= NoError
       THEN [zones |-> <<>>, err |-> Wrap("failed to list zones", listed.err)]
       ELSE [zones |-> FilterZones(df, listed.zones), err |-> NoError]

\* the host whose rows the appliance holds in the zone
ZoneHost(zone) ==
    CASE zone.ID = "1" -> "www.a.com"
      [] zone.ID = "2" -> "www.b.com"
      [] OTHER -> "www.x.a.com"

\* the rows the appliance may hold for a zone
ZoneRows(zone) ==
    { <<>>,
      <<Row(ZoneHost(zone), "TXT", <<"6", "0">>, TargetVal(1))>>,
      <<Row(ZoneHost(zone), "A", <<>>, TargetVal(1)),
        Row(ZoneHost(zone), "CNAME", <<"6", "0">>, TargetVal(2)),
        Row(ZoneHost(zone), "A", <<"6", "0">>, TargetVal(3))>> }

\* the answers the appliance may give to DnsRrList for a zone
RecordListings(zone) ==
    { ListResponse(FALSE, 200, TRUE, TRUE, d) : d \in ZoneRows(zone) }
    \cup ListResponses(<<Row(ZoneHost(zone), "TXT", <<"6", "0">>, TargetVal(1))>>)

\* EfficientIPAPI.RecordList on response r, the map of the conversion being
\* visited in the given order
RecordList(zone, r, order) ==
    IF r.err
    THEN [endpoints |-> <<>>, err |-> <<"API request failed for zone", "request failed">>]
    ELSE IF r.status >= 400
    THEN [endpoints |-> <<>>, err |-> <<"API returned status for zone">>]
    ELSE IF ~r.hasSuccess \/ ~r.success
    THEN [endpoints |-> <<>>, err |-> <<"API response indicated failure for zone">>]
    ELSE convertRecordsToEndpoints(r.data, order)

\* a slip: the endpoints appended so far are returned with the error
RecordsFailurePartial(acc, err) ==
    [endpoints |-> acc, err |-> Wrap("failed to get records for zone", err)]

\* what Records returns when RecordList failed with err, acc being the
\* endpoints appended so far
RecordsFailure(acc, err) ==
    [endpoints |-> <<>>, err |-> Wrap("failed to get records for zone", err)]

InitZones ==
    /\ WriteIdle
    /\ ReadIdle
    /\ AdjustIdle
    /\ HealthIdle
    /\ domainFilter \in DomainFilters
    /\ \E d \in ZoneLists :
          zoneListing \in ListResponses([i \in 1..Len(d) |-> ZoneData(d[i])])
    /\ zpc = "zones"
    /\ zonesRet = <<>>
    /\ zi = 1
    /\ queried = <<>>
    /\ recEndpoints = <<>>
    /\ recordsRet = <<>>

\* Records calls Zones; when Zones fails Records returns at once
ZonesCall ==
    /\ zpc = "zones"
    /\ zonesRet' = Zones(domainFilter, zoneListing)
    /\ IF zonesRet'.err /= NoError
       THEN /\ recordsRet' = [endpoints |-> <<>>,
                              err |-> Wrap("failed to fetch zones", zonesRet'.err)]
            /\ zpc' = "done"
       ELSE /\ zpc' = "loop"
            /\ UNCHANGED recordsRet
    /\ UNCHANGED <<domainFilter, zoneListing, zi, queried, recEndpoints>>
    /\ UNCHANGED <<writeVars, readVars, adjVars, healthVars>>

\* one turn of the loop of Records: RecordList of the next zone
RecordListCall ==
    /\ zpc = "loop"
    /\ zi <= Len(zonesRet.zones)
    /\ LET zone == zonesRet.zones[zi]
       IN \E r \in RecordListings(zone) :
          \E order \in MapOrders(Accumulated(r.data).hostRecords) :
             LET out == RecordList(zone, r, order)
             IN /\ queried' = Append(queried, [zone_id |-> zone.ID, resp |-> r, out |-> out])
                /\ IF out.err /= NoError
                   THEN /\ recordsRet' = RecordsFailure(recEndpoints, out.err)
                        /\ zpc' = "done"
                        /\ UNCHANGED <<zi, recEndpoints>>
                   ELSE /\ recEndpoints' = recEndpoints \o out.endpoints
                        /\ zi' = zi + 1
                        /\ UNCHANGED <<zpc, recordsRet>>
    /\ UNCHANGED <<domainFilter, zoneListing, zonesRet>>
    /\ UNCHANGED <<writeVars, readVars, adjVars, healthVars>>

\* the loop of Records is exhausted
RecordsReturn ==
    /\ zpc = "loop"
    /\ zi > Len(zonesRet.zones)
    /\ recordsRet' = [endpoints |-> recEndpoints, err |-> NoError]
    /\ zpc' = "done"
    /\ UNCHANGED <<domainFilter, zoneListing, zonesRet, zi, queried, recEndpoints>>
    /\ UNCHANGED <<writeVars, readVars, adjVars, healthVars>>

NextZones ==
    \/ ZonesCall
    \/ RecordListCall
    \/ RecordsReturn

SpecZones == InitZones /\ [][NextZones]_vars

-----------------------------------------------------------------------------
(* Properties of Zones and Records *)

ZonesReturned == zpc \in {"loop", "done"}

RecordsReturned == zpc = "done"

ListingFailed(r) == r.err \/ r.status >= 400 \/ ~r.hasSuccess \/ ~r.success

ListedZones == [i \in 1..Len(zoneListing.data) |-> NewZoneAuth(zoneListing.data[i])]

MatchingZones == SelectSeq(ListedZones, LAMBDA z : Match(domainFilter, z.Name))

\* C12: Zones returns the zones of the appliance's list whose name matches the
\* domain filter, in the order of the list, the others being left out without
\* error; it returns an error exactly when the zone listing failed.
C12_ZonesFiltered ==
    ZonesReturned =>
        IF ListingFailed(zoneListing)
        THEN zonesRet.err /= NoError /\ zonesRet.zones = <<>>
        ELSE zonesRet.err = NoError /\ zonesRet.zones = MatchingZones

\* the appliance lists a.com and b.com, the filter includes a.com: Zones
\* returns a.com alone
C12_Witness ==
    /\ ZonesReturned
    /\ domainFilter = [include |-> {<<"a", "com">>}, exclude |-> {}]
    /\ ~ListingFailed(zoneListing)
    /\ Len(zoneListing.data) = 2
    /\ zoneListing.data[1].zone_name = <<"a", "com">>
    /\ zoneListing.data[2].zone_name = <<"b", "com">>
    /\ zonesRet.err = NoError
    /\ Len(zonesRet.zones) = 1
    /\ zonesRet.zones[1].Name = <<"a", "com">>

RECURSIVE Concat(_)
Concat(outs) == IF outs = <<>> THEN <<>> ELSE Head(outs).out.endpoints \o Concat(Tail(outs))

ExpectedZones == IF ListingFailed(zoneListing) THEN <<>> ELSE MatchingZones

C15_AllListed ==
    /\ RecordsReturned
    /\ recordsRet.err = NoError
    /\ Len(queried) = 2
    /\ queried[1].out.endpoints /= <<>>
    /\ queried[2].out.endpoints /= <<>>
    /\ recordsRet.endpoints = queried[1].out.endpoints \o queried[2].out.endpoints

\* C14 (list calls): a zone listing or record listing answered with a status
\* of 400 or more, or with a body that says failure, makes Zones and Records
\* return an error.
C14_ListRefusalSurfaced ==
    /\ (ZonesReturned /\ ~zoneListing.err
          /\ (zoneListing.status >= 400 \/ (zoneListing.hasSuccess /\ ~zoneListing.success))) =>
          /\ zonesRet.err /= NoError
          /\ RecordsReturned
          /\ recordsRet.err /= NoError
    /\ \A i \in 1..Len(queried) :
          (~queried[i].resp.err
             /\ (queried[i].resp.status >= 400
                   \/ (queried[i].resp.hasSuccess /\ ~queried[i].resp.success))) =>
              /\ queried[i].out.err /= NoError
              /\ i = Len(queried)
              /\ RecordsReturned
              /\ recordsRet.err /= NoError

-----------------------------------------------------------------------------
(* WebhookServer: the /healthz handler *)

MaxRequests == 2

StatusOK == 200
StatusInternalServerError == 500

Requests == 1..MaxRequests

\* a request not yet made.  pc is the position of its handler; ok is the value
\* it read from ws.Ready; status is its answer.  The other fields record what
\* had happened when the handler was invoked and when it answered.
NewRequest ==
    [pc |-> "new", ok |-> FALSE, status |-> 0,
     afterSignal |-> FALSE, first |-> FALSE, after200 |-> FALSE,
     tookSignal |-> FALSE, answeredAfterSignal |-> FALSE]

Invoked(q) == reqs[q].pc /= "new"

Answered(q) == reqs[q].pc = "done"

\* NewServer, StartHealth serving, the webhook API not yet started
InitHealth ==
    /\ WriteIdle
    /\ ReadIdle
    /\ AdjustIdle
    /\ ZonesIdle
    /\ wsReady = FALSE
    /\ wsChannel = 0
    /\ apiStarted = FALSE
    /\ reqs = [r \in Requests |-> NewRequest]

\* api.StartHTTPApi sends on ws.Channel once it listens
SignalReady ==
    /\ ~apiStarted
    /\ wsChannel = 0
    /\ wsChannel' = 1
    /\ apiStarted' = TRUE
    /\ UNCHANGED <<wsReady, reqs>>
    /\ UNCHANGED <<writeVars, readVars, adjVars, zoneVars>>

\* a /healthz request comes in: net/http runs the handler in a goroutine of
\* the request's connection
HealthRequest(r) ==
    /\ reqs[r].pc = "new"
    /\ reqs' = [reqs EXCEPT ![r] =
                  [@ EXCEPT !.pc = "select",
                            !.afterSignal = apiStarted,
                            !.first = apiStarted /\ \A q \in Requests :
                                          Invoked(q) => ~reqs[q].afterSignal,
                            !.after200 = \E q \in Requests :
                                          Answered(q) /\ reqs[q].status = StatusOK]]
    /\ UNCHANGED <<wsReady, wsChannel, apiStarted>>
    /\ UNCHANGED <<writeVars, readVars, adjVars, zoneVars>>

\* select { case <-ws.Channel: ... default: }
HealthSelect(r) ==
    /\ reqs[r].pc = "select"
    /\ IF wsChannel > 0
       THEN /\ wsChannel' = wsChannel - 1
            /\ reqs' = [reqs EXCEPT ![r] = [@ EXCEPT !.pc = "set", !.tookSignal = TRUE]]
       ELSE /\ reqs' = [reqs EXCEPT ![r] = [@ EXCEPT !.pc = "check"]]
            /\ UNCHANGED wsChannel
    /\ UNCHANGED <<wsReady, apiStarted>>
    /\ UNCHANGED <<writeVars, readVars, adjVars, zoneVars>>

\* ws.Ready = true
HealthSetReady(r) ==
    /\ reqs[r].pc = "set"
    /\ wsReady' = TRUE
    /\ reqs' = [reqs EXCEPT ![r] = [@ EXCEPT !.pc = "check"]]
    /\ UNCHANGED <<wsChannel, apiStarted>>
    /\ UNCHANGED <<writeVars, readVars, adjVars, zoneVars>>

\* if ws.Ready: the read of the flag, which no lock orders with the write of
\* another handler
HealthCheck(r) ==
    /\ reqs[r].pc = "check"
    /\ reqs' = [reqs EXCEPT ![r] = [@ EXCEPT !.pc = "respond", !.ok = wsReady]]
    /\ UNCHANGED <<wsReady, wsChannel, apiStarted>>
    /\ UNCHANGED <<writeVars, readVars, adjVars, zoneVars>>

\* w.WriteHeader
HealthRespond(r) ==
    /\ reqs[r].pc = "respond"
    /\ reqs' = [reqs EXCEPT ![r] =
                  [@ EXCEPT !.pc = "done",
                            !.status = IF reqs[r].ok THEN StatusOK
                                       ELSE StatusInternalServerError,
                            !.answeredAfterSignal = apiStarted]]
    /\ UNCHANGED <<wsReady, wsChannel, apiStarted>>
    /\ UNCHANGED <<writeVars, readVars, adjVars, zoneVars>>

NextHealth ==
    \/ SignalReady
    \/ \E r \in Requests : HealthRequest(r)
    \/ \E r \in Requests : HealthSelect(r)
    \/ \E r \in Requests : HealthSetReady(r)
    \/ \E r \in Requests : HealthCheck(r)
    \/ \E r \in Requests : HealthRespond(r)

SpecHealth == InitHealth /\ [][NextHealth]_vars

\* C19: a request answered before the webhook API signalled is answered 500;
\* the first request made after the signal is answered 200; a request made
\* after a 200 was answered is answered 200.
C19_HealthLatch ==
    \A r \in Requests :
        Answered(r) =>
            /\ ~reqs[r].answeredAfterSignal => reqs[r].status = StatusInternalServerError
            /\ reqs[r].first => reqs[r].status = StatusOK
            /\ reqs[r].after200 => reqs[r].status = StatusOK

\* the first request made after the signal is answered 500: another request,
\* made later, took the value from the channel and had not yet set ws.Ready
\* when the first read it
C19_Witness ==
    \E r, q \in Requests :
        /\ r /= q
        /\ Answered(r)
        /\ reqs[r].first
        /\ reqs[r].status = StatusInternalServerError
        /\ reqs[q].afterSignal /\ reqs[q].tookSignal

\* what holds of the latch under every interleaving: ws.Ready is set only
\* after the signal and never reset; once the value has been taken from the
\* channel and the handler that took it has set ws.Ready, the flag is set;
\* the handler that took the value answers 200; a request answered before the
\* signal is answered 500, a request made after a 200 is answered 200.
C19_ReadyLatch ==
    /\ wsReady => apiStarted
    /\ (apiStarted /\ wsChannel = 0 /\ \A q \in Requests : reqs[q].pc /= "set") => wsReady
    /\ (\E q \in Requests : Answered(q) /\ reqs[q].status = StatusOK) => wsReady
    /\ \A r \in Requests :
          Answered(r) =>
              /\ reqs[r].tookSignal => reqs[r].status = StatusOK
              /\ ~reqs[r].answeredAfterSignal => reqs[r].status = StatusInternalServerError
              /\ reqs[r].after200 => reqs[r].status = StatusOK

\* ws.Ready never returns to false
C19_ReadyNeverReset == [][wsReady => wsReady']_vars

====
